---- MODULE Spec2Model ----
(***************************************************************************)
(* Model of lidi's diode stages.                                           *)
(*  - The receiver-side session demultiplexer (src/src/up/deserialize.rs): *)
(*    the loop that reads ClientMessage records from the decoded stream    *)
(*    and fans them out to one unbounded queue and one forwarding worker   *)
(*    per client session. Specification Spec.                              *)
(*  - The receiver's pipeline (src/src/bin/diode-receive.rs): the UDP      *)
(*    ingest loop, and the reblock and decoding threads of its thread      *)
(*    scope, which share the block_to_receive gate. Specifications         *)
(*    RecvSpec and RecvFairSpec.                                           *)
(*  - The UDP send stage (src/src/send/udp_send.rs). Specification         *)
(*    SendSpec.                                                            *)
(***************************************************************************)
EXTENDS Integers, Sequences, FiniteSets, TLC

\* ------------------------------------------------------------------ bounds

\* Number of records the dispatcher reads from the stream in one run.
MaxRecords == 4

\* Number of distinct client identifiers occurring in the stream.
NumClients == 2

\* config.nb_clients, handed to the dispatcher as nb_multiplex.
nb_clients == 1

\* Number of datagram batches the receiver's ingest loop reads in one run.
MaxBatches == 3

\* Number of batches the encoder hands to the UDP send stage in one run.
MaxSendBatches == 3

\* config.nb_decoding_threads
nb_decoding_threads == 2

\* protocol::nb_encoding_packets: the packets a block needs to be decodable.
nb_encoding_packets == 2

\* The most datagrams one batched receive or send carries.
max_messages == 2

\* Block numbers are u8 and wrap.
BlockModulus == 256

\* ------------------------------------------------------------------- types

ClientId == 1..NumClients

\* Payload bytes of a Data record.
Bytes == {"A", "B"}

Start == [kind |-> "Start", bytes |-> ""]
Abort == [kind |-> "Abort", bytes |-> ""]
End == [kind |-> "End", bytes |-> ""]
Padding == [kind |-> "Padding", bytes |-> ""]
Data(b) == [kind |-> "Data", bytes |-> b]

\* diode::Message
Message == {Start, Abort, End, Padding} \cup {Data(b) : b \in Bytes}

\* diode::ClientMessage
ClientMessage == [client_id : ClientId, payload : Message]

\* Absent key of a BTreeMap<ClientId, Sender>.
None == 0

VARIABLES
    pc,                \* "running", "error" (main_loop returned Err), "panicked"
    active_transfers,  \* ClientId -> channel id, None when absent
    ended_transfers,   \* ClientId -> channel id, None when absent
    failed_transfers,  \* set of ClientId
    channels,          \* channel id -> [queue, sent, rx]
    workers,           \* spawned tcp_serve threads: [client_id, recvq]
    errors,            \* number of "deserialize loop error" lines logged
    log                \* records read so far, each with what the tables held

\* The receiver's pipeline (src/src/bin/diode-receive.rs).
VARIABLES
    ingest,            \* "running", "failed" (the scope closure returned Err
                       \* and the scope joins its threads), "returned"
    main_errors,       \* number of "failed to launch main_loop" lines logged
    received,          \* batches read by recv_mmsg so far
    udp_q,             \* udp_sendq -> udp_recvq: batches, as packet counts
    reblock,           \* the reblock thread: [alive, pending, block_id]
    reblock_q,         \* reblock_sendq -> reblock_recvq: [block, decodable]
    decoders,          \* the decoding threads: [st, block, ok, lost]
    block_to_receive,  \* the Mutex<u8> shared by reblock and decoding
    decoding_q,        \* what decoding sent downstream: [block, ok]
    finished           \* block numbers in the order their decoding finished

\* The UDP send stage (src/src/send/udp_send.rs).
VARIABLES
    send_pc,           \* "bind", "set_buf", "get_buf", "recv", "send", "returned"
    send_errors,       \* number of "UDP send loop error" lines logged
    send_q,            \* recvq: batches waiting, as packet counts
    send_tx,           \* the encoder still holds the sending end of recvq
    produced,          \* batches the encoder has queued so far
    packets,           \* the batch taken by recvq.recv(), 0 when none
    udp_out            \* batches handed to send_mmsg successfully

dispatch_vars == <<pc, active_transfers, ended_transfers, failed_transfers,
                   channels, workers, errors, log>>

recv_vars == <<ingest, main_errors, received, udp_q, reblock, reblock_q,
               decoders, block_to_receive, decoding_q, finished>>

send_vars == <<send_pc, send_errors, send_q, send_tx, produced, packets, udp_out>>

vars == <<dispatch_vars, recv_vars, send_vars>>

tables == <<active_transfers, ended_transfers, failed_transfers>>

Init ==
    /\ pc = "running"
    /\ active_transfers = [c \in ClientId |-> None]
    /\ ended_transfers = [c \in ClientId |-> None]
    /\ failed_transfers = {}
    /\ channels = <<>>
    /\ workers = <<>>
    /\ errors = 0
    /\ log = <<>>
    /\ ingest = "running"
    /\ main_errors = 0
    /\ received = 0
    /\ udp_q = <<>>
    /\ reblock = [alive |-> TRUE, pending |-> 0, block_id |-> 0]
    /\ reblock_q = <<>>
    /\ decoders = [w \in 1..nb_decoding_threads |->
                     [st |-> "idle", block |-> 0, ok |-> FALSE, lost |-> FALSE]]
    /\ block_to_receive = 0
    /\ decoding_q = <<>>
    /\ finished = <<>>
    /\ send_pc = "bind"
    /\ send_errors = 0
    /\ send_q = <<>>
    /\ send_tx = TRUE
    /\ produced = 0
    /\ packets = 0
    /\ udp_out = <<>>


\* ------------------------------------------------------------ the channel

Last(s) == s[Len(s)]

\* unbounded::<diode::Message>(): an empty queue whose receiver is alive.
\* "sent" is the history of every payload the channel accepted.
unbounded == [queue |-> <<>>, sent |-> <<>>, rx |-> TRUE]

\* Sender::send succeeds exactly while the receiving end has not been dropped;
\* an unbounded channel has no capacity that could refuse a message.
SendOk(ch) == ch.rx

\* A send that puts the payload at the head of the queue.
Send_prepend(ch, payload) ==
    [ch EXCEPT !.queue = <<payload>> \o @, !.sent = <<payload>> \o @]

\* The effect of a successful Sender::send: the payload joins the tail.
Send(ch, payload) ==
    [ch EXCEPT !.queue = Append(@, payload), !.sent = Append(@, payload)]

\* Sender::is_empty
is_empty(ch) == Len(ch.queue) = 0

\* A will_end that forgets Abort.
will_end_onlyEnd(payload) == payload = End

\* matches!(message.payload, Abort | End)
will_end(payload) == payload \in {Abort, End}

\* The closure handed to ended_transfers.retain, for the entry of client_id.
retain(client_id) == is_empty(channels[ended_transfers[client_id]])

\* What the dispatcher saw when it read a record: the record, the channel the
\* active table held for its client_id, whether the id was in the failed set,
\* and whether that channel's receiver was still alive.
Observed(message) ==
    LET q == active_transfers[message.client_id] IN
    [client_id |-> message.client_id,
     payload |-> message.payload,
     session |-> q,
     failed |-> message.client_id \in failed_transfers,
     rx |-> IF q = None THEN FALSE ELSE channels[q].rx]

\* bincode::deserialize_from returned a ClientMessage.
Read(message) ==
    /\ pc = "running"
    /\ Len(log) < MaxRecords
    /\ log' = Append(log, Observed(message))


\* --------------------------------------------------- the dispatcher's loop

\* A failed-set check that lets a Start take its id out of the failed set and
\* open a new session.
Skip_forgive(message) ==
    /\ Read(message)
    /\ message.client_id \in failed_transfers
    /\ IF message.payload.kind = "Start"
       THEN /\ failed_transfers' = failed_transfers \ {message.client_id}
            /\ channels' = Append(channels, unbounded)
            /\ active_transfers' =
                 [active_transfers EXCEPT ![message.client_id] = Len(channels) + 1]
            /\ workers' = Append(workers, [client_id |-> message.client_id,
                                           recvq |-> Len(channels) + 1])
       ELSE UNCHANGED <<failed_transfers, channels, active_transfers, workers>>
    /\ UNCHANGED <<pc, ended_transfers, errors>>

\* A loop without the failed-set check: a Data, Abort or End of a failed id
\* reaches the lookup in the active table, which has no entry for it.
Skip_fallthrough(message) ==
    /\ Read(message)
    /\ message.client_id \in failed_transfers
    /\ pc' = IF message.payload.kind \in {"Data", "Abort", "End"}
                  /\ active_transfers[message.client_id] = None
             THEN "panicked" ELSE pc
    /\ UNCHANGED <<tables, channels, workers, errors>>

\* if failed_transfers.contains(&message.client_id) { continue; }
Skip(message) ==
    /\ Read(message)
    /\ message.client_id \in failed_transfers
    /\ UNCHANGED <<pc, tables, channels, workers, errors>>

\* A lookup that drops the record of an unknown id instead of panicking.
PayloadUnwrapNone_drop(message) ==
    /\ Read(message)
    /\ message.client_id \notin failed_transfers
    /\ message.payload.kind \notin {"Padding", "Start"}
    /\ active_transfers[message.client_id] = None
    /\ UNCHANGED <<pc, tables, channels, workers, errors>>

\* The `_` arm when active_transfers.get(..) is None: unwrap panics and the
\* dispatcher thread dies.
PayloadUnwrapNone(message) ==
    /\ Read(message)
    /\ message.client_id \notin failed_transfers
    /\ message.payload.kind \notin {"Padding", "Start"}
    /\ active_transfers[message.client_id] = None
    /\ pc' = "panicked"
    /\ UNCHANGED <<tables, channels, workers, errors>>

\* A send failure that removes the session but does not record the id.
PayloadSendErr_forget(message) ==
    /\ Read(message)
    /\ message.client_id \notin failed_transfers
    /\ message.payload.kind \notin {"Padding", "Start"}
    /\ active_transfers[message.client_id] # None
    /\ ~SendOk(channels[active_transfers[message.client_id]])
    /\ active_transfers' = [active_transfers EXCEPT ![message.client_id] = None]
    /\ UNCHANGED <<pc, failed_transfers, ended_transfers, channels, workers, errors>>

\* A send failure that records the id but leaves its session in the active
\* table.
PayloadSendErr_keep(message) ==
    /\ Read(message)
    /\ message.client_id \notin failed_transfers
    /\ message.payload.kind \notin {"Padding", "Start"}
    /\ active_transfers[message.client_id] # None
    /\ ~SendOk(channels[active_transfers[message.client_id]])
    /\ failed_transfers' = failed_transfers \cup {message.client_id}
    /\ UNCHANGED <<pc, active_transfers, ended_transfers, channels, workers, errors>>

\* The `_` arm when client_sendq.send fails: the session leaves the active
\* table, its id joins the failed set, and the iteration ends (continue).
PayloadSendErr(message) ==
    /\ Read(message)
    /\ message.client_id \notin failed_transfers
    /\ message.payload.kind \notin {"Padding", "Start"}
    /\ active_transfers[message.client_id] # None
    /\ ~SendOk(channels[active_transfers[message.client_id]])
    /\ active_transfers' = [active_transfers EXCEPT ![message.client_id] = None]
    /\ failed_transfers' = failed_transfers \cup {message.client_id}
    /\ UNCHANGED <<pc, ended_transfers, channels, workers, errors>>

\* The `_` arm over a channel of capacity one: send waits while a message is
\* queued for the worker.
PayloadSent_bounded(message) ==
    LET client_sendq == active_transfers[message.client_id] IN
    /\ Read(message)
    /\ message.client_id \notin failed_transfers
    /\ message.payload.kind \notin {"Padding", "Start"}
    /\ client_sendq # None
    /\ SendOk(channels[client_sendq])
    /\ Len(channels[client_sendq].queue) < 1
    /\ channels' = [channels EXCEPT ![client_sendq] = Send(@, message.payload)]
    /\ IF will_end(message.payload)
       THEN /\ active_transfers' =
                 [active_transfers EXCEPT ![message.client_id] = None]
            /\ ended_transfers' =
                 [ended_transfers EXCEPT ![message.client_id] = client_sendq]
       ELSE UNCHANGED <<active_transfers, ended_transfers>>
    /\ UNCHANGED <<pc, failed_transfers, workers, errors>>

\* The `_` arm when client_sendq.send succeeds, followed by `if will_end`.
PayloadSent(message) ==
    LET client_sendq == active_transfers[message.client_id] IN
    /\ Read(message)
    /\ message.client_id \notin failed_transfers
    /\ message.payload.kind \notin {"Padding", "Start"}
    /\ client_sendq # None
    /\ SendOk(channels[client_sendq])
    /\ channels' = [channels EXCEPT ![client_sendq] = Send(@, message.payload)]
    /\ IF will_end(message.payload)
       THEN /\ active_transfers' =
                 [active_transfers EXCEPT ![message.client_id] = None]
            /\ ended_transfers' =
                 [ended_transfers EXCEPT ![message.client_id] = client_sendq]
       ELSE UNCHANGED <<active_transfers, ended_transfers>>
    /\ UNCHANGED <<pc, failed_transfers, workers, errors>>

\* A Padding record that falls through to the forwarding arm.
OnPadding_forward(message) ==
    LET client_sendq == active_transfers[message.client_id] IN
    /\ Read(message)
    /\ message.client_id \notin failed_transfers
    /\ message.payload.kind = "Padding"
    /\ IF client_sendq # None /\ SendOk(channels[client_sendq])
       THEN channels' = [channels EXCEPT ![client_sendq] = Send(@, message.payload)]
       ELSE UNCHANGED channels
    /\ UNCHANGED <<pc, tables, workers, errors>>

\* Message::Padding(_): ended_transfers.retain(..); continue
OnPadding(message) ==
    /\ Read(message)
    /\ message.client_id \notin failed_transfers
    /\ message.payload.kind = "Padding"
    /\ ended_transfers' =
         [c \in ClientId |->
            IF ended_transfers[c] # None /\ retain(c)
            THEN ended_transfers[c] ELSE None]
    /\ UNCHANGED <<pc, active_transfers, failed_transfers, channels, workers, errors>>

\* A Start that is refused once nb_clients sessions are active.
OnStart_limited(message) ==
    /\ Read(message)
    /\ message.client_id \notin failed_transfers
    /\ message.payload.kind = "Start"
    /\ IF Cardinality({c \in ClientId : active_transfers[c] # None}) < nb_clients
       THEN /\ channels' = Append(channels, unbounded)
            /\ active_transfers' =
                 [active_transfers EXCEPT ![message.client_id] = Len(channels) + 1]
            /\ workers' = Append(workers, [client_id |-> message.client_id,
                                           recvq |-> Len(channels) + 1])
       ELSE UNCHANGED <<channels, active_transfers, workers>>
    /\ UNCHANGED <<pc, ended_transfers, failed_transfers, errors>>

\* A Start that keeps the session an already active id has.
OnStart_keep(message) ==
    /\ Read(message)
    /\ message.client_id \notin failed_transfers
    /\ message.payload.kind = "Start"
    /\ IF active_transfers[message.client_id] = None
       THEN /\ channels' = Append(channels, unbounded)
            /\ active_transfers' =
                 [active_transfers EXCEPT ![message.client_id] = Len(channels) + 1]
            /\ workers' = Append(workers, [client_id |-> message.client_id,
                                           recvq |-> Len(channels) + 1])
       ELSE UNCHANGED <<channels, active_transfers, workers>>
    /\ UNCHANGED <<pc, ended_transfers, failed_transfers, errors>>

\* A Start that ends the session its id already has: an Abort is queued for
\* the prior worker and the prior sender moves to the ended table.
OnStart_teardown(message) ==
    LET prior == active_transfers[message.client_id] IN
    /\ Read(message)
    /\ message.client_id \notin failed_transfers
    /\ message.payload.kind = "Start"
    /\ channels' =
         Append(IF prior # None /\ SendOk(channels[prior])
                THEN [channels EXCEPT ![prior] = Send(@, Abort)]
                ELSE channels,
                unbounded)
    /\ active_transfers' =
         [active_transfers EXCEPT ![message.client_id] = Len(channels) + 1]
    /\ ended_transfers' =
         IF prior # None
         THEN [ended_transfers EXCEPT ![message.client_id] = prior]
         ELSE ended_transfers
    /\ workers' = Append(workers, [client_id |-> message.client_id,
                                   recvq |-> Len(channels) + 1])
    /\ UNCHANGED <<pc, failed_transfers, errors>>

\* Message::Start: a new channel, its sender inserted in the active table
\* (replacing any sender the id had), its receiver moved to a new thread.
OnStart(message) ==
    /\ Read(message)
    /\ message.client_id \notin failed_transfers
    /\ message.payload.kind = "Start"
    /\ channels' = Append(channels, unbounded)
    /\ active_transfers' =
         [active_transfers EXCEPT ![message.client_id] = Len(channels) + 1]
    /\ workers' = Append(workers, [client_id |-> message.client_id,
                                   recvq |-> Len(channels) + 1])
    /\ UNCHANGED <<pc, ended_transfers, failed_transfers, errors>>

\* A deserialization failure that is logged while the loop carries on.
DeserializeError_resync ==
    /\ pc = "running"
    /\ errors < 1
    /\ errors' = errors + 1
    /\ UNCHANGED <<pc, tables, channels, workers, log>>

\* bincode::deserialize_from fails: `?` returns the error from main_loop and
\* new() logs it; the thread ends.
DeserializeError ==
    /\ pc = "running"
    /\ pc' = "error"
    /\ errors' = errors + 1
    /\ UNCHANGED <<tables, channels, workers, log>>

\* ------------------------------------------------- the forwarding workers

\* A worker takes the head of its queue; a terminal record makes it close its
\* connection and return, dropping the receiver.
WorkerRecv(q) ==
    /\ channels[q].rx
    /\ channels[q].queue # <<>>
    /\ channels' = [channels EXCEPT
                      ![q].queue = Tail(@),
                      ![q].rx = ~will_end(Head(channels[q].queue))]
    /\ UNCHANGED <<pc, tables, workers, errors, log>>

\* A worker returns (abort_timeout, a broken TCP connection, a disconnected
\* queue): the receiver is dropped. Whether the messages still queued are
\* freed at once depends on the channel implementation.
WorkerExit(q) ==
    /\ channels[q].rx
    /\ \E discard \in BOOLEAN :
         channels' = [channels EXCEPT
                        ![q].rx = FALSE,
                        ![q].queue = IF discard THEN <<>> ELSE @]
    /\ UNCHANGED <<pc, tables, workers, errors, log>>

\* A step of the dispatcher or of a forwarding worker leaves the other
\* stages alone.
Elsewhere == UNCHANGED <<recv_vars, send_vars>>

Next ==
    \/ \E message \in ClientMessage : Skip(message) /\ Elsewhere
    \/ \E message \in ClientMessage : OnPadding(message) /\ Elsewhere
    \/ \E message \in ClientMessage : OnStart(message) /\ Elsewhere
    \/ \E message \in ClientMessage : PayloadUnwrapNone(message) /\ Elsewhere
    \/ \E message \in ClientMessage : PayloadSendErr(message) /\ Elsewhere
    \/ \E message \in ClientMessage : PayloadSent(message) /\ Elsewhere
    \/ DeserializeError /\ Elsewhere
    \/ \E q \in DOMAIN channels : WorkerRecv(q) /\ Elsewhere
    \/ \E q \in DOMAIN channels : WorkerExit(q) /\ Elsewhere

Spec == Init /\ [][Next]_vars


\* ------------------------------------------------- the receiver's pipeline

\* Sizes of the batches recv_mmsg returns: at least one datagram.
BatchSize == 1..max_messages

\* A channel whose send waits while one batch is queued.
HasRoom_bounded(queue) == Len(queue) < 1

\* unbounded(): a send never waits for room, whatever the queue holds.
HasRoom(queue) == TRUE

\* One turn of the ingest loop: recv_mmsg returns a batch and udp_sendq.send
\* queues it for reblock.
IngestRecv(n) ==
    /\ ingest = "running"
    /\ received < MaxBatches
    /\ HasRoom(udp_q)
    /\ udp_q' = Append(udp_q, n)
    /\ received' = received + 1
    /\ UNCHANGED <<ingest, main_errors, reblock, reblock_q, decoders,
                   block_to_receive, decoding_q, finished>>

\* recv_mmsg fails: `?` returns the error from the closure given to
\* thread::scope, which now waits for the threads spawned in it.
IngestError ==
    /\ ingest = "running"
    /\ ingest' = "failed"
    /\ UNCHANGED <<main_errors, received, udp_q, reblock, reblock_q, decoders,
                   block_to_receive, decoding_q, finished>>

\* Every scoped thread has returned.
ScopedThreadsDone ==
    /\ ~reblock.alive
    /\ \A w \in DOMAIN decoders : decoders[w].st = "dead"

\* thread::scope returns once all its threads are joined; main_loop returns
\* the closure's error and main logs it.
ScopeJoin ==
    /\ ingest = "failed"
    /\ ScopedThreadsDone
    /\ ingest' = "returned"
    /\ main_errors' = main_errors + 1
    /\ UNCHANGED <<received, udp_q, reblock, reblock_q, decoders,
                   block_to_receive, decoding_q, finished>>

\* Reblock takes a batch from udp_recvq and adds its packets to the block it
\* is collecting.
ReblockRecv ==
    /\ reblock.alive
    /\ udp_q # <<>>
    /\ reblock' = [reblock EXCEPT !.pending = @ + Head(udp_q)]
    /\ udp_q' = Tail(udp_q)
    /\ UNCHANGED <<ingest, main_errors, received, reblock_q, decoders,
                   block_to_receive, decoding_q, finished>>

\* Reblock emits the block it is collecting once it is decodable.
ReblockEmit ==
    /\ reblock.alive
    /\ reblock.pending >= nb_encoding_packets
    /\ reblock_q' = Append(reblock_q, [block |-> reblock.block_id, decodable |-> TRUE])
    /\ reblock' = [reblock EXCEPT !.pending = @ - nb_encoding_packets,
                                  !.block_id = (@ + 1) % BlockModulus]
    /\ UNCHANGED <<ingest, main_errors, received, udp_q, decoders,
                   block_to_receive, decoding_q, finished>>

\* flush_timeout elapses on a block with too few packets: it is emitted as it
\* is.
ReblockFlush ==
    /\ reblock.alive
    /\ reblock.pending > 0
    /\ reblock.pending < nb_encoding_packets
    /\ reblock_q' = Append(reblock_q, [block |-> reblock.block_id, decodable |-> FALSE])
    /\ reblock' = [reblock EXCEPT !.pending = 0,
                                  !.block_id = (@ + 1) % BlockModulus]
    /\ UNCHANGED <<ingest, main_errors, received, udp_q, decoders,
                   block_to_receive, decoding_q, finished>>

\* The reblock thread ends on a failure of its own.
ReblockFail ==
    /\ reblock.alive
    /\ reblock' = [reblock EXCEPT !.alive = FALSE]
    /\ UNCHANGED <<ingest, main_errors, received, udp_q, reblock_q, decoders,
                   block_to_receive, decoding_q, finished>>

\* An idle decoding thread takes the next block from reblock_recvq.
DecoderTake(w) ==
    /\ decoders[w].st = "idle"
    /\ reblock_q # <<>>
    /\ decoders' = [decoders EXCEPT ![w] =
                      [st |-> "decoding", block |-> Head(reblock_q).block,
                       ok |-> Head(reblock_q).decodable, lost |-> FALSE]]
    /\ reblock_q' = Tail(reblock_q)
    /\ UNCHANGED <<ingest, main_errors, received, udp_q, reblock,
                   block_to_receive, decoding_q, finished>>

\* A decoder that gives up a block it cannot decode and takes the next one,
\* leaving the gate where it is.
DecoderDecode_dropLost(w) ==
    /\ decoders[w].st = "decoding"
    /\ decoders' = [decoders EXCEPT ![w].st =
                      IF decoders[w].ok THEN "ready" ELSE "idle"]
    /\ finished' = Append(finished, decoders[w].block)
    /\ UNCHANGED <<ingest, main_errors, received, udp_q, reblock, reblock_q,
                   block_to_receive, decoding_q>>

\* The erasure decode of the block the thread holds ends, with the block's
\* bytes or with a failure; either result waits for its turn to be emitted.
DecoderDecode(w) ==
    /\ decoders[w].st = "decoding"
    /\ decoders' = [decoders EXCEPT ![w].st = "ready"]
    /\ finished' = Append(finished, decoders[w].block)
    /\ UNCHANGED <<ingest, main_errors, received, udp_q, reblock, reblock_q,
                   block_to_receive, decoding_q>>

\* A decoder that emits as soon as it has a result.
DecoderEmit_noGate(w) ==
    /\ decoders[w].st = "ready"
    /\ decoding_q' = Append(decoding_q, [block |-> decoders[w].block,
                                         ok |-> decoders[w].ok])
    /\ block_to_receive' = (block_to_receive + 1) % BlockModulus
    /\ decoders' = [decoders EXCEPT ![w].st = "idle"]
    /\ UNCHANGED <<ingest, main_errors, received, udp_q, reblock, reblock_q,
                   finished>>

\* Under the lock of block_to_receive: when the gate shows the block the
\* thread holds, the thread sends its result downstream and advances the gate.
DecoderEmit(w) ==
    /\ decoders[w].st = "ready"
    /\ block_to_receive = decoders[w].block
    /\ decoding_q' = Append(decoding_q, [block |-> decoders[w].block,
                                         ok |-> decoders[w].ok])
    /\ block_to_receive' = (block_to_receive + 1) % BlockModulus
    /\ decoders' = [decoders EXCEPT ![w].st = "idle"]
    /\ UNCHANGED <<ingest, main_errors, received, udp_q, reblock, reblock_q,
                   finished>>

\* A decoding thread ends on a failure of its own; a block it held is lost.
DecoderFail(w) ==
    /\ decoders[w].st # "dead"
    /\ decoders' = [decoders EXCEPT
                      ![w].st = "dead",
                      ![w].lost = decoders[w].st \in {"decoding", "ready"}]
    /\ UNCHANGED <<ingest, main_errors, received, udp_q, reblock, reblock_q,
                   block_to_receive, decoding_q, finished>>

\* A step of the receiver leaves the dispatcher's tables and the send stage
\* alone.
RecvElsewhere == UNCHANGED <<dispatch_vars, send_vars>>

RecvNext ==
    \/ \E n \in BatchSize : IngestRecv(n) /\ RecvElsewhere
    \/ IngestError /\ RecvElsewhere
    \/ ScopeJoin /\ RecvElsewhere
    \/ ReblockRecv /\ RecvElsewhere
    \/ ReblockEmit /\ RecvElsewhere
    \/ ReblockFlush /\ RecvElsewhere
    \/ ReblockFail /\ RecvElsewhere
    \/ \E w \in DOMAIN decoders : DecoderTake(w) /\ RecvElsewhere
    \/ \E w \in DOMAIN decoders : DecoderDecode(w) /\ RecvElsewhere
    \/ \E w \in DOMAIN decoders : DecoderEmit(w) /\ RecvElsewhere
    \/ \E w \in DOMAIN decoders : DecoderFail(w) /\ RecvElsewhere

RecvSpec == Init /\ [][RecvNext]_vars

\* The scheduler runs every thread that can take a step: each step of a live
\* thread is taken if it stays possible. Failures are not owed to anyone.
RecvFairness ==
    /\ WF_vars(ScopeJoin /\ RecvElsewhere)
    /\ WF_vars(ReblockRecv /\ RecvElsewhere)
    /\ WF_vars(ReblockEmit /\ RecvElsewhere)
    /\ WF_vars(ReblockFlush /\ RecvElsewhere)
    /\ \A w \in 1..nb_decoding_threads :
          /\ WF_vars(DecoderTake(w) /\ RecvElsewhere)
          /\ WF_vars(DecoderDecode(w) /\ RecvElsewhere)
          /\ WF_vars(DecoderEmit(w) /\ RecvElsewhere)

RecvFairSpec == RecvSpec /\ RecvFairness

\* ------------------------------------------------------ the UDP send stage

\* The stage's main_loop returns the error and new() logs it.
SendStageFails ==
    /\ send_pc' = "returned"
    /\ send_errors' = send_errors + 1

\* The encoder queues a batch of packets for the stage.
EncoderSend(n) ==
    /\ send_tx
    /\ produced < MaxSendBatches
    /\ send_q' = Append(send_q, n)
    /\ produced' = produced + 1
    /\ UNCHANGED <<send_pc, send_errors, send_tx, packets, udp_out>>

\* The encoder ends and drops the sending end of the queue.
EncoderDrop ==
    /\ send_tx
    /\ send_tx' = FALSE
    /\ UNCHANGED <<send_pc, send_errors, send_q, produced, packets, udp_out>>

\* UdpSocket::bind(config.to_bind)?
UdpBind(ok) ==
    /\ send_pc = "bind"
    /\ IF ok THEN send_pc' = "set_buf" /\ UNCHANGED send_errors
             ELSE SendStageFails
    /\ UNCHANGED <<send_q, send_tx, produced, packets, udp_out>>

\* sock_utils::set_socket_send_buffer_size(&socket, i32::MAX)?
UdpSetBuffer(ok) ==
    /\ send_pc = "set_buf"
    /\ IF ok THEN send_pc' = "get_buf" /\ UNCHANGED send_errors
             ELSE SendStageFails
    /\ UNCHANGED <<send_q, send_tx, produced, packets, udp_out>>

\* sock_utils::get_socket_send_buffer_size(&socket)?; a small buffer is only
\* warned about.
UdpGetBuffer(ok) ==
    /\ send_pc = "get_buf"
    /\ IF ok THEN send_pc' = "recv" /\ UNCHANGED send_errors
             ELSE SendStageFails
    /\ UNCHANGED <<send_q, send_tx, produced, packets, udp_out>>

\* recvq.recv() returns the next batch.
UdpRecv ==
    /\ send_pc = "recv"
    /\ send_q # <<>>
    /\ packets' = Head(send_q)
    /\ send_q' = Tail(send_q)
    /\ send_pc' = "send"
    /\ UNCHANGED <<send_errors, send_tx, produced, udp_out>>

\* recvq.recv()? on an empty queue whose sender is gone.
UdpRecvError ==
    /\ send_pc = "recv"
    /\ send_q = <<>>
    /\ ~send_tx
    /\ SendStageFails
    /\ UNCHANGED <<send_q, send_tx, produced, packets, udp_out>>

\* A send_mmsg whose failure is logged while the loop goes on to the next
\* batch.
UdpSendMmsg_retry(ok) ==
    /\ send_pc = "send"
    /\ IF ok THEN udp_out' = Append(udp_out, packets) /\ UNCHANGED send_errors
             ELSE send_errors' = send_errors + 1 /\ UNCHANGED udp_out
    /\ send_pc' = "recv"
    /\ packets' = 0
    /\ UNCHANGED <<send_q, send_tx, produced>>

\* udp_messages.send_mmsg(..)?
UdpSendMmsg(ok) ==
    /\ send_pc = "send"
    /\ IF ok THEN /\ udp_out' = Append(udp_out, packets)
                  /\ send_pc' = "recv"
                  /\ UNCHANGED send_errors
             ELSE /\ SendStageFails
                  /\ UNCHANGED udp_out
    /\ packets' = 0
    /\ UNCHANGED <<send_q, send_tx, produced>>

\* A step of the send stage leaves the receiver alone.
SendElsewhere == UNCHANGED <<dispatch_vars, recv_vars>>

SendNext ==
    \/ \E n \in BatchSize : EncoderSend(n) /\ SendElsewhere
    \/ EncoderDrop /\ SendElsewhere
    \/ \E ok \in BOOLEAN : UdpBind(ok) /\ SendElsewhere
    \/ \E ok \in BOOLEAN : UdpSetBuffer(ok) /\ SendElsewhere
    \/ \E ok \in BOOLEAN : UdpGetBuffer(ok) /\ SendElsewhere
    \/ UdpRecv /\ SendElsewhere
    \/ UdpRecvError /\ SendElsewhere
    \/ \E ok \in BOOLEAN : UdpSendMmsg(ok) /\ SendElsewhere

SendSpec == Init /\ [][SendNext]_vars

\* ------------------------------------------------ vocabulary of the claims

Forwardable == {"Data", "Abort", "End"}

\* The step read a record from the stream.
Dispatched == log' # log

\* The payloads of the records of `records` that satisfy Keep, in order.
Payloads(records, Keep(_)) ==
    LET kept == SelectSeq(records, Keep)
    IN [i \in 1..Len(kept) |-> kept[i].payload]

\* A Data/Abort/End record of the client of channel q, read while the active
\* table held q for that client.
ForSession(q, r) ==
    /\ r.client_id = workers[q].client_id
    /\ r.session = q
    /\ r.payload.kind \in Forwardable

\* The record's enqueue failed: its session was active, its worker was gone.
EnqueueFailed(r) ==
    /\ r.payload.kind \in Forwardable
    /\ ~r.failed
    /\ r.session # None
    /\ ~r.rx

ActiveCount == Cardinality({c \in ClientId : active_transfers[c] # None})

\* ------------------------------------------------------------------ claims

\* C1 as stated: every channel has accepted exactly the Data/Abort/End records
\* of its client that were read while its session was in the active table,
\* in stream order.
C1_EnqueuedAllWhileActive ==
    \A q \in DOMAIN channels :
        channels[q].sent = Payloads(log, LAMBDA r : ForSession(q, r))

\* C1 amended: every channel has accepted exactly the Data/Abort/End records
\* of its client that were read while its session was in the active table and
\* its worker still held the receiving end, in stream order; nothing is
\* reordered, duplicated or delivered to another client's channel.
C1_EnqueuedInOrder ==
    \A q \in DOMAIN channels :
        channels[q].sent = Payloads(log, LAMBDA r : ForSession(q, r) /\ r.rx)

\* C1 witness: two sessions have each accepted a different payload.
C1_Witness ==
    \E q1, q2 \in DOMAIN channels :
        /\ workers[q1].client_id # workers[q2].client_id
        /\ channels[q1].sent # <<>>
        /\ channels[q2].sent # <<>>
        /\ channels[q1].sent[1] # channels[q2].sent[1]

\* C2: a successfully enqueued Abort or End moves the session from the active
\* table to the ended table, and its queue is what it was plus that record.
C2_TerminalMovesToEnded ==
    [][(Dispatched /\ Last(log').payload \in {Abort, End}
          /\ Last(log').session # None /\ Last(log').rx /\ ~Last(log').failed)
       => LET r == Last(log')
              q == r.session
          IN /\ active_transfers'[r.client_id] = None
             /\ ended_transfers'[r.client_id] = q
             /\ channels'[q].queue = Append(channels[q].queue, r.payload)
             /\ channels'[q].sent = Append(channels[q].sent, r.payload)]_vars

\* C2 witness: an Abort has just ended a session whose Data is still queued.
C2_Witness ==
    /\ log # <<>>
    /\ Last(log).payload = Abort
    /\ Last(log).session # None
    /\ ended_transfers[Last(log).client_id] = Last(log).session
    /\ active_transfers[Last(log).client_id] = None
    /\ Len(channels[Last(log).session].queue) >= 2
    /\ Last(channels[Last(log).session].queue) = Abort

\* C3: a failed enqueue removes the session from the active table and puts
\* its id in the failed set without touching the ended table or any queue;
\* every later record of that id changes no table, queue or worker.
C3_FailedEnqueue ==
    [][Dispatched =>
        LET r == Last(log') IN
        /\ EnqueueFailed(r) =>
              /\ active_transfers'[r.client_id] = None
              /\ r.client_id \in failed_transfers'
              /\ ended_transfers' = ended_transfers
              /\ channels' = channels
        /\ (\E i \in 1..Len(log) :
                log[i].client_id = r.client_id /\ EnqueueFailed(log[i]))
            => UNCHANGED <<pc, tables, channels, workers>>]_vars

\* C3 witness: a Start was read for an id whose enqueue had failed before.
C3_Witness ==
    /\ Len(log) >= 2
    /\ Last(log).payload = Start
    /\ \E i \in 1..(Len(log) - 1) :
          /\ log[i].client_id = Last(log).client_id
          /\ log[i].payload \in {Abort, End}
          /\ EnqueueFailed(log[i])
    /\ active_transfers[Last(log).client_id] = None
    /\ ended_transfers[Last(log).client_id] = None

\* C4: a Padding record removes from the ended table every session whose
\* queue is empty.
C4_PaddingPurgesDrained ==
    [][(Dispatched /\ Last(log').payload.kind = "Padding") =>
        \A c \in ClientId :
            (ended_transfers[c] # None /\ is_empty(channels[ended_transfers[c]]))
            => ended_transfers'[c] = None]_vars

\* C5: no step takes a session out of the ended table while its queue still
\* holds messages.
C5_EndedRetainedUntilDrained ==
    [][\A c \in ClientId :
        (ended_transfers[c] # None /\ ended_transfers'[c] # ended_transfers[c])
        => is_empty(channels[ended_transfers[c]])]_vars

\* C6: a Padding record is enqueued nowhere and leaves the active table, the
\* failed set, every channel and every worker as they were; entries of the
\* ended table are kept or removed, never added.
C6_PaddingNoTraffic ==
    [][(Dispatched /\ Last(log').payload.kind = "Padding") =>
        /\ UNCHANGED <<pc, active_transfers, failed_transfers, channels, workers>>
        /\ \A c \in ClientId :
              ended_transfers'[c] \in {ended_transfers[c], None}]_vars

\* C6 witness: a Padding has just been read while a session was active and
\* the session ended just before it, its End still queued, has left the
\* ended table.
C6_Witness ==
    /\ Len(log) >= 3
    /\ Last(log).payload.kind = "Padding"
    /\ ~Last(log).failed
    /\ \E c \in ClientId : active_transfers[c] # None
    /\ LET e == log[Len(log) - 1] IN
          /\ e.payload = End
          /\ e.session # None
          /\ e.rx
          /\ ended_transfers[e.client_id] = None
          /\ channels[e.session].queue # <<>>

\* C7: Data/Abort/End for an id in the failed set are dropped, and a Start
\* for such an id allocates a new session for it.
C7_StartReusesFailedId ==
    [][(Dispatched /\ Last(log').failed) =>
        LET r == Last(log') IN
        /\ r.payload.kind \in Forwardable => UNCHANGED <<pc, tables, channels, workers>>
        /\ r.payload = Start =>
              /\ active_transfers'[r.client_id] # None
              /\ active_transfers'[r.client_id] \notin DOMAIN channels]_vars

\* C8: the first deserialization failure ends the loop and is logged once;
\* from then on no record is read and no table or channel receives anything.
C8_ParseFailureFatal ==
    [][/\ (errors = 0 /\ errors' # 0) => (errors' = 1 /\ pc' = "error" /\ log' = log)
       /\ errors # 0 =>
            /\ UNCHANGED <<pc, tables, workers, errors, log>>
            /\ Len(channels') = Len(channels)
            /\ \A q \in DOMAIN channels : channels'[q].sent = channels[q].sent]_vars

\* C8 witness: the loop has returned the error with sessions open and with
\* more records still to come.
C8_Witness ==
    /\ pc = "error"
    /\ errors = 1
    /\ log # <<>>
    /\ Len(log) < MaxRecords
    /\ \E c \in ClientId : active_transfers[c] # None

\* C9: a Start for an id outside the failed set binds the id to a channel that
\* did not exist before, empty and with its receiver alive, and spawns exactly
\* one worker, which holds that receiver; no existing channel changes.
C9_StartAllocatesSession ==
    [][(Dispatched /\ Last(log').payload = Start /\ ~Last(log').failed) =>
        LET r == Last(log')
            q == Len(channels) + 1
        IN /\ active_transfers'[r.client_id] = q
           /\ \A c \in ClientId : active_transfers[c] # q /\ ended_transfers[c] # q
           /\ channels' = Append(channels, [queue |-> <<>>, sent |-> <<>>, rx |-> TRUE])
           /\ workers' = Append(workers, [client_id |-> r.client_id, recvq |-> q])
           /\ UNCHANGED <<pc, ended_transfers, failed_transfers>>]_vars

\* C9 witness: a Start has just replaced the session of an active id.
C9_Witness ==
    /\ log # <<>>
    /\ Last(log).payload = Start
    /\ ~Last(log).failed
    /\ Last(log).session # None
    /\ active_transfers[Last(log).client_id] = Len(channels)
    /\ Len(workers) = Len(channels)
    /\ channels[Len(channels)].sent = <<>>

\* C10: a Start for an inactive id is accepted when nb_clients or more
\* sessions are already active, and the number of active sessions grows.
C10_NoAdmissionLimit ==
    [][(Dispatched /\ Last(log').payload = Start /\ ~Last(log').failed
          /\ Last(log').session = None /\ ActiveCount >= nb_clients)
       => /\ active_transfers'[Last(log').client_id] # None
          /\ ActiveCount' = ActiveCount + 1]_vars

\* C10 witness: more sessions are active than nb_clients.
C10_Witness == ActiveCount > nb_clients


\* C16: no step removes a client_id from the failed set.
C16_FailedOnlyGrows ==
    [][failed_transfers \subseteq failed_transfers']_vars

\* C16 witness: a Start has been read for an id that was already in the
\* failed set, and the id is still there.
C16_Witness ==
    /\ log # <<>>
    /\ Last(log).payload = Start
    /\ Last(log).failed
    /\ Last(log).client_id \in failed_transfers
    /\ pc = "running"

\* C17: a Start for an id that is already active binds the id to a new
\* channel and spawns a second worker for it, while the prior channel gets no
\* record, keeps its worker and does not enter the ended table; and a channel
\* only ever accepts a record while the active table holds it for the
\* record's id, so the replaced channel accepts nothing afterwards.
C17_StartReplacesActive ==
    [][/\ (Dispatched /\ Last(log').payload = Start /\ Last(log').session # None)
          => LET r == Last(log')
                 prior == r.session
             IN /\ active_transfers'[r.client_id] = Len(channels) + 1
                /\ channels'[prior] = channels[prior]
                /\ ended_transfers' = ended_transfers
                /\ workers' = Append(workers, [client_id |-> r.client_id,
                                               recvq |-> Len(channels) + 1])
                /\ \A c \in ClientId : active_transfers'[c] # prior
       /\ \A q \in DOMAIN channels :
            channels'[q].sent # channels[q].sent
            => /\ Dispatched
               /\ active_transfers[Last(log').client_id] = q]_vars

\* C17 witness: an id was started twice, its first channel holds the Data
\* sent before the second Start and its second channel the Data sent after.
C17_Witness ==
    \E q1, q2 \in DOMAIN channels :
        /\ q1 < q2
        /\ workers[q1].client_id = workers[q2].client_id
        /\ \E i \in 1..Len(log) :
              /\ log[i].payload = Start
              /\ log[i].session = q1
        /\ active_transfers[workers[q2].client_id] = q2
        /\ Len(channels[q1].sent) = 1
        /\ Len(channels[q2].sent) = 1
        /\ channels[q1].rx
        /\ \A c \in ClientId : ended_transfers[c] = None

\* C18: no client_id is in the failed set and in the active table at once.
C18_FailedActiveDisjoint ==
    \A c \in failed_transfers : active_transfers[c] = None

\* C18 witness: one id is failed while another is active.
C18_Witness ==
    /\ failed_transfers # {}
    /\ \E c \in ClientId : active_transfers[c] # None

\* The lifecycle position of client c after the first n records of the log:
\* "idle" (no open transfer), "open" (Start seen, no terminal record yet) or
\* "bad" (a record out of place). Padding records are no part of a transfer.
RECURSIVE Lifecycle(_, _)
Lifecycle(c, n) ==
    IF n = 0 THEN "idle"
    ELSE LET before == Lifecycle(c, n - 1)
             r == log[n]
         IN IF r.client_id # c \/ r.payload.kind = "Padding" THEN before
            ELSE IF before = "bad" THEN "bad"
            ELSE IF r.payload.kind = "Start"
                 THEN (IF before = "idle" THEN "open" ELSE "bad")
            ELSE IF r.payload.kind = "Data"
                 THEN (IF before = "open" THEN "open" ELSE "bad")
            ELSE (IF before = "open" THEN "idle" ELSE "bad")

\* Every client's records so far follow Start, Data*, at most one Abort/End,
\* and an id is started again only after its terminal record.
WellFormed == \A c \in ClientId : Lifecycle(c, Len(log)) # "bad"

\* C19: on a well-formed stream the lookup in the active table never fails,
\* whatever the workers do.
C19_WellFormedNeverPanics == WellFormed => pc # "panicked"

\* C19 witness: a well-formed stream in which an enqueue failed and a later
\* Data, Abort or End of the same id was read, with the loop still running.
C19_Witness ==
    /\ WellFormed
    /\ pc = "running"
    /\ \E i, j \in 1..Len(log) :
          /\ i < j
          /\ EnqueueFailed(log[i])
          /\ log[j].client_id = log[i].client_id
          /\ log[j].payload.kind \in Forwardable

\* C20: a Data, Abort or End record for an id that is neither active nor
\* failed makes the dispatcher panic without touching a table or a channel,
\* and once it has panicked no record is read or enqueued.
C20_UnknownIdPanics ==
    [][/\ (Dispatched /\ Last(log').payload.kind \in Forwardable
             /\ ~Last(log').failed /\ Last(log').session = None)
          => /\ pc' = "panicked"
             /\ UNCHANGED <<tables, channels, workers>>
       /\ pc = "panicked"
          => /\ UNCHANGED <<pc, tables, workers, errors, log>>
             /\ Len(channels') = Len(channels)
             /\ \A q \in DOMAIN channels : channels'[q].sent = channels[q].sent]_vars

\* C20 witness: the dispatcher has panicked on a Data for an id whose session
\* had ended, with records still to come.
C20_Witness ==
    /\ pc = "panicked"
    /\ Len(log) < MaxRecords
    /\ Last(log).payload.kind = "Data"
    /\ ended_transfers[Last(log).client_id] # None


\* Position i of a sequence holds the block numbered i - 1, cyclically.
InProductionOrder(blocks) ==
    \A i \in 1..Len(blocks) : blocks[i].block = (i - 1) % BlockModulus

\* C11: whatever the interleaving and the order in which decodes finish, the
\* blocks sent downstream are in strict cyclic production order, the gate
\* counts them, and a thread holding a finished block other than the gate's
\* cannot emit it.
C11_EmittedInProductionOrder ==
    /\ InProductionOrder(decoding_q)
    /\ block_to_receive = Len(decoding_q) % BlockModulus
    /\ \A w \in DOMAIN decoders :
          (decoders[w].st = "ready" /\ decoders[w].block # block_to_receive)
          => ~ENABLED DecoderEmit(w)

\* C11 witness: block 1 finished decoding before block 0, and both have been
\* emitted.
C11_Witness ==
    /\ Len(finished) >= 2
    /\ finished[1] = 1
    /\ finished[2] = 0
    /\ Len(decoding_q) >= 2

\* The decoding stage has failed: a decoding thread died while it held a
\* block, or no decoding thread is left.
DecodingFailed ==
    \/ \E w \in DOMAIN decoders : decoders[w].lost
    \/ \A w \in DOMAIN decoders : decoders[w].st = "dead"

\* Block k has been sent downstream by a decoding thread.
Emitted(k) == \E i \in 1..Len(decoding_q) : decoding_q[i].block = k

\* Reblock emits at most one block per batch it has taken, so block numbers
\* stay below MaxBatches.
\* C12: every block Reblock has emitted, decodable or flushed short of
\* packets, is eventually sent downstream by Decoding unless the decoding
\* stage itself fails: a block that cannot be decoded does not hold back the
\* blocks after it.
C12_NoHeadOfLineBlocking ==
    \A k \in 0..(MaxBatches - 1) :
        (reblock.block_id > k) ~> (Emitted(k) \/ DecodingFailed)

\* C12 witness: a block that failed to decode was emitted as a gap and a
\* decoded block was emitted after it.
C12_Witness ==
    \E i, j \in 1..Len(decoding_q) :
        /\ i < j
        /\ ~decoding_q[i].ok
        /\ decoding_q[j].ok

\* C13: once the ingest loop has stopped on an I/O error, main_loop
\* eventually returns the error to main, which logs it.
C13_IngestErrorReturned ==
    (ingest = "failed") ~> (ingest = "returned" /\ main_errors = 1)

\* C15: while the ingest loop runs, queueing the batch it has received is
\* possible whatever the queues between the stages hold.
C15_IngestNeverBlocks ==
    (ingest = "running" /\ received < MaxBatches)
    => \A n \in BatchSize : ENABLED IngestRecv(n)

\* C15 witness: the ingest loop is running with a batch waiting for reblock,
\* a block waiting for a decoder and nothing sent downstream yet.
C15_Witness ==
    /\ ingest = "running"
    /\ received < MaxBatches
    /\ udp_q # <<>>
    /\ reblock_q # <<>>
    /\ decoding_q = <<>>


\* C14: the first error of the UDP send stage, at bind, at either socket
\* buffer call, at the queue receive or at send_mmsg, ends the stage: it is
\* logged once, main_loop has returned, and from then on nothing is logged,
\* taken from the queue or sent.
C14_SendStageErrorFatal ==
    [][/\ send_errors' # send_errors
          => /\ send_errors = 0
             /\ send_errors' = 1
             /\ send_pc' = "returned"
             /\ udp_out' = udp_out
       /\ (send_pc' = "returned" /\ send_pc # "returned") => send_errors' = 1
       /\ send_errors # 0
          => UNCHANGED <<send_pc, send_errors, packets, udp_out>>
             /\ Len(send_q') >= Len(send_q)]_vars

\* C14 witness: the stage has returned on a failed send_mmsg after sending a
\* batch, with another batch still queued.
C14_Witness ==
    /\ send_pc = "returned"
    /\ send_errors = 1
    /\ udp_out # <<>>
    /\ send_q # <<>>
    /\ Len(udp_out) + Len(send_q) + 1 = produced

\* ---------------------------------------------------------------- C21

\* The dispatcher's step for a record it has read: exactly one arm of the loop.
Dispatch(message) ==
    \/ Skip(message)
    \/ OnPadding(message)
    \/ OnStart(message)
    \/ PayloadUnwrapNone(message)
    \/ PayloadSendErr(message)
    \/ PayloadSent(message)

\* The session of client_id is active and its worker still holds the receiver.
Deliverable(client_id) ==
    /\ client_id \notin failed_transfers
    /\ active_transfers[client_id] # None
    /\ SendOk(channels[active_transfers[client_id]])

\* C21: the dispatcher never waits on a session worker. While the loop runs,
\* whatever record comes next is dispatched at once, whatever any session's
\* queue holds and however far any worker has got; and a Data, Abort or End
\* for a client whose session is active with a live worker is put at the
\* tail of that client's queue by that step.
C21_DispatcherNeverWaits ==
    (pc = "running" /\ Len(log) < MaxRecords)
    => \A message \in ClientMessage :
         /\ ENABLED Dispatch(message)
         /\ (Deliverable(message.client_id)
               /\ message.payload.kind \notin {"Padding", "Start"})
            => ENABLED (/\ PayloadSent(message)
                        /\ LET q == active_transfers[message.client_id] IN
                             channels'[q].queue
                               = Append(channels[q].queue, message.payload))

\* C21 witness: the loop is running with a record still to come, one client's
\* worker has consumed nothing of what was queued for it, and another client
\* has an active session with a live worker.
C21_Witness ==
    /\ pc = "running"
    /\ Len(log) < MaxRecords
    /\ \E c, d \in ClientId :
         /\ c # d
         /\ Deliverable(c)
         /\ Deliverable(d)
         /\ channels[active_transfers[c]].queue # <<>>
         /\ channels[active_transfers[c]].queue = channels[active_transfers[c]].sent

====
